---- MODULE Spec2Model ----
(***************************************************************************)
(* Model of services/geminiService.ts: generateLifeAnalysis, its retry     *)
(* loop against the chat-completion endpoint and the normalization of the  *)
(* reply into a LifeDestinyResult.                                         *)
(*                                                                         *)
(* Text is a sequence of one-character strings, so that String.includes,   *)
(* trim, indexOf/lastIndexOf, substring and the regular-expression         *)
(* replacements are computed on characters.  Literal message pieces that   *)
(* contain none of the characters the code searches for are kept as one    *)
(* element (their wording is given in English).  Inside the reply content  *)
(* a JSON key, a JSON scalar and a JSON array are one element each.        *)
(*                                                                         *)
(* The text operators are written as a local function applied to the       *)
(* argument (LET f[v \in Text] == ... IN f[s]): the argument is evaluated   *)
(* once however often the body reads it.                                   *)
(***************************************************************************)
EXTENDS Integers, Sequences, FiniteSets

\* ------------------------------------------------------------------ bounds
\* largest score value the endpoint puts in a reply
MaxScore == 6

\* ------------------------------------------------------- program constants
retries == 3
ServiceBackoffMs == 2000
NetworkBackoffMs == 2000
DefaultScore == 5
FragmentLen == 50

\* the invocations of generateLifeAnalysis that may run side by side
Invocations == {1, 2}

\* ------------------------------------------------------------ text helpers
\* all text
Chars == Seq(STRING)

DigitChar == <<"0", "1", "2", "3", "4", "5", "6", "7", "8", "9">>

\* template-literal interpolation of a non-negative integer
Digits(n) ==
    LET f[v \in Nat] == IF v < 10 THEN <<DigitChar[v + 1]>>
                        ELSE f[v \div 10] \o <<DigitChar[(v % 10) + 1]>>
    IN  f[n]

\* String.prototype.includes
Includes(s, sub) ==
    LET f[v \in Chars, w \in Chars] ==
            \E k \in 0..(Len(v) - Len(w)) : SubSeq(v, k + 1, k + Len(w)) = w
    IN  f[s, sub]

Whitespace == {" ", "\t", "\n"}

TrimStart(s) ==
    LET f[v \in Chars] == IF v # <<>> /\ Head(v) \in Whitespace THEN f[Tail(v)] ELSE v
    IN  f[s]

TrimEnd(s) ==
    LET f[v \in Chars] == IF v # <<>> /\ v[Len(v)] \in Whitespace
                          THEN f[SubSeq(v, 1, Len(v) - 1)] ELSE v
    IN  f[s]

\* String.prototype.trim
Trim(s) == TrimEnd(TrimStart(s))

\* String.prototype.indexOf / lastIndexOf for a one-character needle
\* (0-based, -1 when absent)
IndexOf(s, c) ==
    LET f[v \in Chars] ==
            IF \E k \in 1..Len(v) : v[k] = c
            THEN (CHOOSE k \in 1..Len(v) : v[k] = c /\ \A j \in 1..(k - 1) : v[j] # c) - 1
            ELSE -1
    IN  f[s]

LastIndexOf(s, c) ==
    LET f[v \in Chars] ==
            IF \E k \in 1..Len(v) : v[k] = c
            THEN (CHOOSE k \in 1..Len(v) : v[k] = c /\ \A j \in (k + 1)..Len(v) : v[j] # c) - 1
            ELSE -1
    IN  f[s]

\* String.prototype.substring(from, to) with 0 <= from <= to
Substring(s, from, to) ==
    LET f[v \in Chars] == SubSeq(v, from + 1, IF to < Len(v) THEN to ELSE Len(v))
    IN  f[s]

\* ------------------------------------------------- optional string inputs
\* a caller-supplied field: a string, or undefined when the field is missing
Str(s) == [def |-> TRUE, s |-> s]
Undefined == [def |-> FALSE, s |-> <<>>]

\* JavaScript truthiness of an optional string
StrTruthy(v) == v.def /\ v.s # <<>>

\* the check without the trim
IsBlank_NoTrim(v) == ~StrTruthy(v)

\* !x || !x.trim()
IsBlank(v) == ~StrTruthy(v) \/ Trim(v.s) = <<>>

\* messages of the errors thrown by generateLifeAnalysis
MsgApiKey == <<"please enter a valid API Key in the form">>
MsgBaseUrl == <<"please enter a valid API Base URL in the form">>

NoError == [kind |-> "none", msg |-> <<>>]
Err(kind, msg) == [kind |-> kind, msg |-> msg]

\* ------------------------------------------------------------ JSON values
\* a JavaScript value read out of the parsed reply: undefined (absent
\* property), null, a number, a string or an array
Undef == [t |-> "undefined", n |-> 0, s |-> <<>>]
Null == [t |-> "null", n |-> 0, s |-> <<>>]
Num(n) == [t |-> "num", n |-> n, s |-> <<>>]
Text(s) == [t |-> "str", n |-> 0, s |-> s]
Arr(s) == [t |-> "arr", n |-> 0, s |-> s]

\* all such values
Values == [t : {"undefined", "null", "num", "str", "arr"}, n : Int, s : Chars]

\* JavaScript truthiness
Truthy(v) ==
    CASE v.t = "undefined" -> FALSE
      [] v.t = "null" -> FALSE
      [] v.t = "num" -> v.n # 0
      [] v.t = "str" -> v.s # <<>>
      [] OTHER -> TRUE

\* Array.isArray
IsArray(v) == v.t = "arr"

\* a || b
OrElse(v, d) == IF Truthy(v) THEN v ELSE d

ScoreFields == {"summaryScore", "industryScore", "wealthScore",
                "marriageScore", "healthScore", "familyScore"}
TextFields == {"summary", "industry", "wealth", "marriage", "health", "family"}
Fields == {"chartPoints", "bazi"} \cup TextFields \cup ScoreFields

\* one-element JSON scalars and arrays, and the value each denotes
NumTokens == {DigitChar[n + 1] : n \in 0..9}
ArrTokens == {"[]", "[a]", "[a,b]"}
ValueTokens == NumTokens \cup ArrTokens \cup {"null", "\"\"", "\"x\""}

ValueOf(tok) ==
    CASE tok \in NumTokens -> Num(CHOOSE n \in 0..9 : DigitChar[n + 1] = tok)
      [] tok = "[]" -> Arr(<<>>)
      [] tok = "[a]" -> Arr(<<"a">>)
      [] tok = "[a,b]" -> Arr(<<"a", "b">>)
      [] tok = "\"\"" -> Text(<<>>)
      [] tok = "\"x\"" -> Text(<<"x">>)
      [] OTHER -> Null

\* the slots of a "key : value , key : value" run inside braces
IsMemberList(m) ==
    LET f[v \in Chars] ==
            \/ Len(v) = 0
            \/ /\ (Len(v) + 1) % 4 = 0
               /\ \A k \in 1..Len(v) :
                    CASE k % 4 = 1 -> v[k] \in Fields
                      [] k % 4 = 2 -> v[k] = ":"
                      [] k % 4 = 3 -> v[k] \in ValueTokens
                      [] OTHER -> v[k] = ","
    IN  f[m]

\* property f of the object written by member list m (the last duplicate
\* wins; undefined when absent)
Member(m, f) ==
    LET g[v \in Chars] ==
            IF \E k \in 1..Len(v) : k % 4 = 1 /\ v[k] = f
            THEN ValueOf(v[(CHOOSE k \in 1..Len(v) :
                               /\ k % 4 = 1 /\ v[k] = f
                               /\ \A j \in (k + 1)..Len(v) : ~(j % 4 = 1 /\ v[j] = f)) + 2])
            ELSE Undef
    IN  g[m]

DropWhitespace(s) ==
    LET f[v \in Chars] ==
            IF v = <<>> THEN <<>>
            ELSE IF Head(v) \in Whitespace THEN f[Tail(v)]
            ELSE <<Head(v)>> \o f[Tail(v)]
    IN  f[s]

NoData == [ok |-> FALSE, isObj |-> FALSE, obj |-> [f \in Fields |-> Undef], val |-> Undef]

\* all outcomes of JSON.parse
Data == [ok : BOOLEAN, isObj : BOOLEAN, obj : [Fields -> Values], val : Values]

\* JSON.parse: an object of scalar/array members, or a lone scalar/array;
\* ok = FALSE stands for the SyntaxError it throws
JSONParse(text) ==
    LET parse[t \in Chars] ==
            IF Len(t) = 1 /\ t[1] \in ValueTokens
            THEN [ok |-> TRUE, isObj |-> FALSE, obj |-> NoData.obj, val |-> ValueOf(t[1])]
            ELSE IF /\ Len(t) >= 2
                    /\ t[1] = "{"
                    /\ t[Len(t)] = "}"
                    /\ IsMemberList(SubSeq(t, 2, Len(t) - 1))
            THEN [ok |-> TRUE, isObj |-> TRUE,
                  obj |-> [f \in Fields |-> Member(SubSeq(t, 2, Len(t) - 1), f)],
                  val |-> Undef]
            ELSE NoData
    IN  parse[DropWhitespace(text)]

\* data?.f and data.f on the parsed value
Get(data, f) == IF data.isObj THEN data.obj[f] ELSE Undef

\* ------------------------------------------------------- content cleaning
LowerCase(c) ==
    CASE c = "J" -> "j" [] c = "S" -> "s" [] c = "O" -> "o" [] c = "N" -> "n"
      [] OTHER -> c

\* the backquote character (written by name: the lexer reserves the character)
Backquote == "backquote"

Fence == <<Backquote, Backquote, Backquote>>
FenceJson == Fence \o <<"j", "s", "o", "n">>

\* the pattern matches at the start of s (ci: ignoring letter case)
MatchesAt(s, pat, ci) ==
    LET f[v \in Chars] ==
            /\ Len(v) >= Len(pat)
            /\ \A k \in 1..Len(pat) : (IF ci THEN LowerCase(v[k]) ELSE v[k]) = pat[k]
    IN  f[s]

\* s.replace(/pat/g, "") for a literal pattern, flag i when ci
RemoveAll(s, pat, ci) ==
    LET f[v \in Chars] ==
            IF v = <<>> THEN <<>>
            ELSE IF MatchesAt(v, pat, ci) THEN f[SubSeq(v, Len(pat) + 1, Len(v))]
            ELSE <<Head(v)>> \o f[Tail(v)]
    IN  f[s]

\* the slice that leaves out the closing brace
SliceBraces_OffByOne(s) ==
    LET f[v \in Chars, firstBrace \in Int, lastBrace \in Int] ==
            IF firstBrace # -1 /\ lastBrace # -1 /\ lastBrace > firstBrace
            THEN Substring(v, firstBrace, lastBrace)
            ELSE v
        g[v \in Chars] == f[v, IndexOf(v, "{"), LastIndexOf(v, "}")]
    IN  g[s]

\* the text between the first "{" and the last "}", when they are in order
SliceBraces(s) ==
    LET f[v \in Chars, firstBrace \in Int, lastBrace \in Int] ==
            IF firstBrace # -1 /\ lastBrace # -1 /\ lastBrace > firstBrace
            THEN Substring(v, firstBrace, lastBrace + 1)
            ELSE v
        g[v \in Chars] == f[v, IndexOf(v, "{"), LastIndexOf(v, "}")]
    IN  g[s]

\* fence stripping, then slicing from the first "{" to the last "}"
CleanContent(content) ==
    SliceBraces(RemoveAll(RemoveAll(content, FenceJson, TRUE), Fence, FALSE))

\* --------------------------------------------------------------- responses
\* what fetch resolved to: the status, the body as response.text() reads it,
\* and what response.json() followed by choices?.[0]?.message?.content gives:
\* "unreadable" (json() rejects), "nocontent" (the path is absent) or
\* "content" (the string in field content)
NoResponse == [status |-> 0, text |-> <<>>, envelope |-> "none", content |-> <<>>]

\* Response.ok
Ok(r) == r.status \in 200..299

Pattern503 == <<"5", "0", "3">>

Msg503(errText) ==
    <<"API request failed (">> \o Pattern503 \o <<" Service Unavailable) - retried ">>
        \o Digits(retries) \o <<" times: ">> \o errText
MsgHttp(status, errText) ==
    <<"API request failed: ">> \o Digits(status) \o <<" - ">> \o errText
MsgUnknown == <<"unknown error during the API request">>
MsgUnreadable == <<"Unexpected token in JSON">>
MsgEmpty == <<"the model returned no content.">>
MsgMalformed(content) ==
    <<"the data returned by the model cannot be parsed. Please retry. Raw fragment: ">>
        \o Substring(content, 0, FragmentLen) \o <<"...">>
MsgMissing == <<"the data returned by the model lacks the key field chartPoints.">>

\* ------------------------------------------------------------------ result
ResultFields == {"chartData", "bazi"} \cup TextFields \cup ScoreFields

NoResult == [f \in ResultFields |-> Undef]

\* the object literal returned by generateLifeAnalysis
MakeResult(data) ==
    LET make[d \in Data] ==
            [f \in ResultFields |->
                CASE f = "chartData" -> Get(d, "chartPoints")
                  [] f = "bazi" -> OrElse(Get(d, "bazi"), Arr(<<>>))
                  [] f = "summary" -> OrElse(Get(d, "summary"), Text(<<"no summary">>))
                  [] f \in TextFields -> OrElse(Get(d, f), Text(<<"none">>))
                  [] OTHER -> OrElse(Get(d, f), Num(DefaultScore))]
    IN  make[data]

\* the check that also turns down an empty array
LacksChartPoints_EmptyRejected(data) ==
    \/ ~IsArray(Get(data, "chartPoints"))
    \/ Get(data, "chartPoints").s = <<>>

\* the check that lets any truthy chartPoints through
LacksChartPoints_TruthyOnly(data) == ~Truthy(Get(data, "chartPoints"))

\* !data?.chartPoints || !Array.isArray(data.chartPoints)
LacksChartPoints(data) ==
    ~Truthy(Get(data, "chartPoints")) \/ ~IsArray(Get(data, "chartPoints"))

\* everything after the retry loop: the error thrown or the result returned
\* for the response the loop left bound
Normalization(response) ==
    IF response = NoResponse
    THEN [error |-> Err("UnknownError", MsgUnknown), result |-> NoResult]
    ELSE IF response.envelope = "unreadable"
    THEN [error |-> Err("EnvelopeError", MsgUnreadable), result |-> NoResult]
    ELSE IF response.envelope = "nocontent" \/ response.content = <<>>
    THEN [error |-> Err("EmptyResponseError", MsgEmpty), result |-> NoResult]
    ELSE LET after[data \in Data] ==
                 IF ~data.ok
                 THEN [error |-> Err("MalformedResponseError", MsgMalformed(response.content)),
                       result |-> NoResult]
                 ELSE IF LacksChartPoints(data)
                 THEN [error |-> Err("MissingFieldError", MsgMissing), result |-> NoResult]
                 ELSE [error |-> NoError, result |-> MakeResult(data)]
         IN  after[JSONParse(CleanContent(response.content))]

\* ---------------------------------------------------------- the retry loop
\* the catch block that waits without counting the attempt
Catch_NoCount(err, attempt) ==
    IF Includes(err.msg, Pattern503)
    THEN [next |-> "throw", attempt |-> attempt, waitMs |-> 0, error |-> err]
    ELSE [next |-> "wait", attempt |-> attempt, waitMs |-> NetworkBackoffMs,
          error |-> NoError]

\* the catch block without the throw on the last attempt
Catch_NoThrowOnLast(err, attempt) ==
    IF Includes(err.msg, Pattern503)
    THEN [next |-> "throw", attempt |-> attempt, waitMs |-> 0, error |-> err]
    ELSE [next |-> "wait", attempt |-> attempt + 1, waitMs |-> NetworkBackoffMs,
          error |-> NoError]

\* the catch block without the rethrow of errors that mention 503
Catch_NoRethrow(err, attempt) ==
    IF attempt + 1 >= retries
    THEN [next |-> "throw", attempt |-> attempt + 1, waitMs |-> 0, error |-> err]
    ELSE [next |-> "wait", attempt |-> attempt + 1, waitMs |-> NetworkBackoffMs,
          error |-> NoError]

\* the catch block whose wait grows with the attempt
Catch_LinearWait(err, attempt) ==
    IF Includes(err.msg, Pattern503)
    THEN [next |-> "throw", attempt |-> attempt, waitMs |-> 0, error |-> err]
    ELSE IF attempt + 1 >= retries
    THEN [next |-> "throw", attempt |-> attempt + 1, waitMs |-> 0, error |-> err]
    ELSE [next |-> "wait", attempt |-> attempt + 1,
          waitMs |-> NetworkBackoffMs * (attempt + 1), error |-> NoError]

\* the inner catch block: rethrow, or count the attempt and wait
Catch(err, attempt) ==
    IF Includes(err.msg, Pattern503)
    THEN [next |-> "throw", attempt |-> attempt, waitMs |-> 0, error |-> err]
    ELSE IF attempt + 1 >= retries
    THEN [next |-> "throw", attempt |-> attempt + 1, waitMs |-> 0, error |-> err]
    ELSE [next |-> "wait", attempt |-> attempt + 1, waitMs |-> NetworkBackoffMs,
          error |-> NoError]

\* the try body giving up one 503 early
OnResponse_EarlyExhaust(response, attempt) ==
    IF response.status = 503
    THEN IF attempt + 1 >= retries - 1
         THEN Catch(Err("ServiceUnavailable", Msg503(response.text)), attempt + 1)
         ELSE [next |-> "wait", attempt |-> attempt + 1,
               waitMs |-> ServiceBackoffMs * (attempt + 1), error |-> NoError]
    ELSE IF ~Ok(response)
    THEN Catch(Err("HttpError", MsgHttp(response.status, response.text)), attempt)
    ELSE [next |-> "break", attempt |-> attempt, waitMs |-> 0, error |-> NoError]

\* the try body giving up one 503 late
OnResponse_LateExhaust(response, attempt) ==
    IF response.status = 503
    THEN IF attempt + 1 > retries
         THEN Catch(Err("ServiceUnavailable", Msg503(response.text)), attempt + 1)
         ELSE [next |-> "wait", attempt |-> attempt + 1,
               waitMs |-> ServiceBackoffMs * (attempt + 1), error |-> NoError]
    ELSE IF ~Ok(response)
    THEN Catch(Err("HttpError", MsgHttp(response.status, response.text)), attempt)
    ELSE [next |-> "break", attempt |-> attempt, waitMs |-> 0, error |-> NoError]

\* the try body whose wait after a 503 grows with the square of the attempt
OnResponse_QuadraticWait(response, attempt) ==
    IF response.status = 503
    THEN IF attempt + 1 >= retries
         THEN Catch(Err("ServiceUnavailable", Msg503(response.text)), attempt + 1)
         ELSE [next |-> "wait", attempt |-> attempt + 1,
               waitMs |-> ServiceBackoffMs * (attempt + 1) * (attempt + 1), error |-> NoError]
    ELSE IF ~Ok(response)
    THEN Catch(Err("HttpError", MsgHttp(response.status, response.text)), attempt)
    ELSE [next |-> "break", attempt |-> attempt, waitMs |-> 0, error |-> NoError]

\* the try body with a fixed wait after a 503
OnResponse_FixedWait(response, attempt) ==
    IF response.status = 503
    THEN IF attempt + 1 >= retries
         THEN Catch(Err("ServiceUnavailable", Msg503(response.text)), attempt + 1)
         ELSE [next |-> "wait", attempt |-> attempt + 1,
               waitMs |-> ServiceBackoffMs, error |-> NoError]
    ELSE IF ~Ok(response)
    THEN Catch(Err("HttpError", MsgHttp(response.status, response.text)), attempt)
    ELSE [next |-> "break", attempt |-> attempt, waitMs |-> 0, error |-> NoError]

\* the body of the try block once fetch has resolved to response
OnResponse(response, attempt) ==
    IF response.status = 503
    THEN IF attempt + 1 >= retries
         THEN Catch(Err("ServiceUnavailable", Msg503(response.text)), attempt + 1)
         ELSE [next |-> "wait", attempt |-> attempt + 1,
               waitMs |-> ServiceBackoffMs * (attempt + 1), error |-> NoError]
    ELSE IF ~Ok(response)
    THEN Catch(Err("HttpError", MsgHttp(response.status, response.text)), attempt)
    ELSE [next |-> "break", attempt |-> attempt, waitMs |-> 0, error |-> NoError]

\* one settled fetch: it rejected with a transport error, or resolved
OnSettle(outcome, attempt) ==
    IF outcome.threw
    THEN Catch(Err("NetworkError", outcome.msg), attempt)
    ELSE OnResponse(outcome.resp, attempt)

\* ----------------------------------------------------- request preparation
\* the heavenly stems, one character each, named by their romanization
YangStems == {"jia", "bing", "wu", "geng", "ren"}
YinStems == {"yi", "ding", "ji", "xin", "gui"}

\* String.prototype.charAt: the empty string past the end
CharAt(s, k) == IF k < Len(s) THEN s[k + 1] ELSE ""

\* the lookup on the untrimmed pillar
getStemPolarity_NoTrim(pillar) ==
    IF ~StrTruthy(pillar) THEN "YANG"
    ELSE LET firstChar == CharAt(pillar.s, 0)
         IN  IF firstChar \in YangStems THEN "YANG"
             ELSE IF firstChar \in YinStems THEN "YIN"
             ELSE "YANG"

getStemPolarity(pillar) ==
    IF ~StrTruthy(pillar) THEN "YANG"
    ELSE LET firstChar == CharAt(Trim(pillar.s), 0)
         IN  IF firstChar \in YangStems THEN "YANG"
             ELSE IF firstChar \in YinStems THEN "YIN"
             ELSE "YANG"

\* the value of a digit character, 99 for any other character
DigitOf(c) ==
    CASE c = "0" -> 0 [] c = "1" -> 1 [] c = "2" -> 2 [] c = "3" -> 3
      [] c = "4" -> 4 [] c = "5" -> 5 [] c = "6" -> 6 [] c = "7" -> 7
      [] c = "8" -> 8 [] c = "9" -> 9
      [] c \in {"a", "A"} -> 10 [] c \in {"b", "B"} -> 11
      [] c \in {"c", "C"} -> 12 [] c \in {"d", "D"} -> 13
      [] c \in {"e", "E"} -> 14 [] c \in {"f", "F"} -> 15
      [] OTHER -> 99

\* a JavaScript number that is an integer, and NaN
IntValue(n) == [nan |-> FALSE, n |-> n]
NaN == [nan |-> TRUE, n |-> 0]

\* parseInt without a radix: leading white space is skipped, a sign is
\* read, "0x" selects radix 16, then the longest run of digits is taken;
\* no digit at all gives NaN.  An undefined argument reads as the text
\* "undefined", which has no digit.
parseInt(str) ==
    LET f[v \in Chars] ==
            LET body == TrimStart(v)
                signed == body # <<>> /\ Head(body) \in {"+", "-"}
                negative == body # <<>> /\ Head(body) = "-"
                unsigned == IF signed THEN Tail(body) ELSE body
                hex == Len(unsigned) >= 2 /\ unsigned[1] = "0" /\ unsigned[2] \in {"x", "X"}
                radix == IF hex THEN 16 ELSE 10
                digits == IF hex THEN SubSeq(unsigned, 3, Len(unsigned)) ELSE unsigned
                run == {k \in 0..Len(digits) : \A j \in 1..k : DigitOf(digits[j]) < radix}
                runLen == CHOOSE k \in run : \A j \in run : j <= k
                value[k \in 0..Len(digits)] ==
                    IF k = 0 THEN 0 ELSE value[k - 1] * radix + DigitOf(digits[k])
            IN  IF runLen = 0 THEN NaN
                ELSE IntValue(IF negative THEN 0 - value[runLen] ELSE value[runLen])
    IN  IF str.def THEN f[str.s] ELSE NaN

DefaultStartAge == 1

\* the parsed number is used whatever it is, 0 included
StartAgeInt_ZeroKept(startAge) ==
    LET parsed == parseInt(startAge)
    IN  IF parsed.nan THEN DefaultStartAge ELSE parsed.n

\* parseInt(input.startAge) || 1: NaN and 0 are falsy
StartAgeInt(startAge) ==
    LET parsed == parseInt(startAge)
    IN  IF parsed.nan \/ parsed.n = 0 THEN DefaultStartAge ELSE parsed.n

\* the direction that looks at the polarity only
IsForward_PolarityOnly(gender, yearStemPolarity) == yearStemPolarity = "YANG"

\* lines 38-44
IsForward(gender, yearStemPolarity) ==
    IF gender = "MALE" THEN yearStemPolarity = "YANG" ELSE yearStemPolarity = "YIN"

GenderStr(gender) == IF gender = "MALE" THEN "male (qian zao)" ELSE "female (kun zao)"
DaYunDirectionStr(isForward) == IF isForward THEN "shun xing (Forward)" ELSE "ni xing (Backward)"
DirectionExample(isForward) ==
    IF isForward THEN "first step wu-shen, second step ji-you (forward order)"
    ELSE "first step wu-shen, second step ding-wei (backward order)"

\* only one trailing slash is removed
CleanBaseUrl_OneSlash(apiBaseUrl) ==
    IF apiBaseUrl # <<>> /\ apiBaseUrl[Len(apiBaseUrl)] = "/"
    THEN SubSeq(apiBaseUrl, 1, Len(apiBaseUrl) - 1) ELSE apiBaseUrl

\* apiBaseUrl.replace(/\/+$/, ""): the run of slashes at the end is removed
CleanBaseUrl(apiBaseUrl) ==
    LET f[v \in Chars] == IF v # <<>> /\ v[Len(v)] = "/"
                          THEN f[SubSeq(v, 1, Len(v) - 1)] ELSE v
    IN  f[apiBaseUrl]

DefaultModel == <<"gemini-3-pro-preview">>

TargetModel(modelName) ==
    IF StrTruthy(modelName) /\ Trim(modelName.s) # <<>> THEN Trim(modelName.s) ELSE DefaultModel

\* the path of the chat-completion endpoint
CompletionsPath == <<"/", "chat", "/", "completions">>

\* the ages the prompt interpolates into its age ranges (lines 78-81)
AgeRanges(startAgeInt) ==
    <<startAgeInt - 1, startAgeInt, startAgeInt + 9, startAgeInt + 10,
      startAgeInt + 19, startAgeInt + 20, startAgeInt + 29>>

\* what generateLifeAnalysis derives from its input before the loop: the
\* target of the calls, the model and the computed parts of the prompt
NoRequest ==
    [built |-> FALSE, url |-> <<>>, targetModel |-> <<>>, genderStr |-> "",
     yearStemPolarity |-> "", isForward |-> FALSE, daYunDirectionStr |-> "",
     directionExample |-> "", startAgeInt |-> 0, ages |-> <<>>]

BuildRequest(in) ==
    LET build[x \in {in}] ==
            LET yearStemPolarity == getStemPolarity(x.yearPillar)
                isForward == IsForward(x.gender, yearStemPolarity)
                startAgeInt == StartAgeInt(x.startAge)
            IN  [built |-> TRUE,
                 url |-> CleanBaseUrl(x.apiBaseUrl.s) \o CompletionsPath,
                 targetModel |-> TargetModel(x.modelName),
                 genderStr |-> GenderStr(x.gender),
                 yearStemPolarity |-> yearStemPolarity,
                 isForward |-> isForward,
                 daYunDirectionStr |-> DaYunDirectionStr(isForward),
                 directionExample |-> DirectionExample(isForward),
                 startAgeInt |-> startAgeInt,
                 ages |-> AgeRanges(startAgeInt)]
    IN  build[in]

\* ------------------------------------------------------------- environment
\* caller inputs
ApiKeys == {Undefined, Str(<<>>), Str(<<" ">>), Str(<<"\t", " ">>), Str(<<"k">>)}
ApiBaseUrls ==
    {Undefined, Str(<<>>), Str(<<" ", " ">>),
     Str(<<"h">>), Str(<<"h", "/">>), Str(<<"h", "/", "/">>), Str(<<"/">>)}

\* the subject of the reading: gender, year pillar, starting age, and the
\* model the caller asks for
Genders == {"MALE", "FEMALE", "OTHER"}
YearPillars ==
    {Undefined, Str(<<>>), Str(<<" ">>), Str(<<"x", "zi">>), Str(<<"zi", "yi">>)}
    \cup {Str(<<st, "zi">>) : st \in YangStems \cup YinStems}
    \cup {Str(<<" ", st, "chou">>) : st \in {"jia", "yi", "gui"}}
    \cup {Str(<<"\t", " ", "ding">>), Str(<<"x", " ", "yi">>)}
StartAges ==
    {Undefined, Str(<<>>), Str(<<"a", "b", "c">>), Str(<<"0">>), Str(<<"1">>), Str(<<"8">>),
     Str(<<"1", "2">>), Str(<<" ", "8">>), Str(<<"8", "a">>), Str(<<"-", "3">>),
     Str(<<"+", "5">>), Str(<<"0", "8">>), Str(<<"0", "x", "1", "0">>), Str(<<"-">>),
     Str(<<"0", "0">>), Str(<<"-", "0">>), Str(<<"8", ".", "9">>)}
ModelNames == {Undefined, Str(<<" ">>), Str(<<" ", "m", " ">>)}

Subjects ==
    [gender : Genders, yearPillar : YearPillars, startAge : StartAges, modelName : ModelNames]

\* the subject of the invocations whose network traffic is followed
LoopSubjects ==
    {[gender |-> "MALE", yearPillar |-> Str(<<"jia", "zi">>),
      startAge |-> Str(<<"8">>), modelName |-> Undefined]}

MakeInput(k, u, sub) ==
    [apiKey |-> k, apiBaseUrl |-> u, gender |-> sub.gender,
     yearPillar |-> sub.yearPillar, startAge |-> sub.startAge, modelName |-> sub.modelName]

\* bodies of failure responses and messages of transport errors
ErrTexts == {<<"busy">>, <<"code ", "5", "0", "3">>}
NetMsgs == {<<"Failed to fetch">>, <<"connect ECONNREFUSED :", "5", "0", "3", "0">>}

FailStatuses == {403, 500, 503}

Obj(members) == <<"{">> \o members \o <<"}">>
Pair(k, v) == <<k, ":", v>>
Points == Pair("chartPoints", "[a]")
ScoreTokens == {DigitChar[n + 1] : n \in 0..MaxScore} \cup {"null"}

\* JSON objects with an array chartPoints, as the model writes them
BareObjects ==
    {Obj(Pair("chartPoints", "[]")),
     Obj(Pair("chartPoints", "[a,b]") \o <<",">> \o Pair("summaryScore", "3"))}

\* what the model may put around the object: prose (with and without
\* braces and backquotes) and Markdown fences in several letter cases
ProseBefore == {<<>>, <<Backquote, "p", " ">>, <<"p", "{", " ">>, <<"}", "p", "\n">>}
ProseAfter == {<<>>, <<" ", "p">>, <<" ", "p", "}">>, <<"\n", "{", "p">>}
FenceOpen == {<<>>, Fence \o <<"J", "s", "O", "N", "\n">>, Fence \o <<"\n">>}
FenceClose == {<<>>, <<"\n">> \o Fence}

WrappedContents ==
    {pre \o open \o obj \o close \o post :
        pre \in ProseBefore, open \in FenceOpen, obj \in BareObjects,
        close \in FenceClose, post \in ProseAfter}

\* reply contents: objects with and without an array chartPoints, with one
\* score or text property set, fenced or surrounded by prose, JSON values
\* that are no object, and text that is no JSON
ReplyContents ==
    {Obj(<<>>), Obj(Pair("summaryScore", "3"))}
    \cup {Obj(Pair("chartPoints", v)) : v \in ArrTokens \cup {"null", "\"x\"", "\"\"", "0", "7"}}
    \cup {Obj(Points \o <<",">> \o Pair(f, v)) : f \in ScoreFields, v \in ScoreTokens}
    \cup {Obj(Points \o <<",">> \o Pair(f, v)) : f \in {"summary", "bazi"},
                                                  v \in {"\"x\"", "\"\"", "[a,b]"}}
    \cup {FenceJson \o <<"\n">> \o Obj(Points) \o <<"\n">> \o Fence,
          <<"p", " ">> \o Obj(Pair("chartPoints", "[a,b]")) \o <<" ", "p">>}
    \cup {<<"null">>, <<"[a]">>, <<"7">>}
    \cup {<<"{">>, <<"p">>, <<"{", "chartPoints", ":", "}">>}
    \cup {<<>>}
    \cup WrappedContents

Responses ==
    {[status |-> st, text |-> b, envelope |-> "unreadable", content |-> <<>>] :
        st \in FailStatuses, b \in ErrTexts}
    \cup {[status |-> 200, text |-> <<>>, envelope |-> e, content |-> <<>>] :
        e \in {"unreadable", "nocontent"}}
    \cup {[status |-> 200, text |-> <<>>, envelope |-> "content", content |-> c] :
        c \in ReplyContents}

\* what a fetch settles to
FetchOutcomes ==
    {[threw |-> TRUE, msg |-> m, resp |-> NoResponse] : m \in NetMsgs}
    \cup {[threw |-> FALSE, msg |-> <<>>, resp |-> r] : r \in Responses}

\* ------------------------------------------------------------------- state
VARIABLES
    input,      \* input[i]: the UserInput of invocation i
    pc,         \* pc[i]: where invocation i stands
    attempt,    \* attempt[i]: the loop's attempt counter
    response,   \* response[i]: the loop's response variable
    inflight,   \* inflight[i]: fetch promises of i not yet settled
    timer,      \* timer[i]: the delay of the pending setTimeout, 0 when none
    log,        \* log[i]: the network calls and waits of i, in order
    request,    \* request[i]: the target, model and prompt parts i sends
    error,      \* error[i]: the error i was rejected with
    result      \* result[i]: the value i resolved to

vars == <<input, pc, attempt, response, inflight, timer, log, request, error, result>>

\* a call event with the URL it targets: pending, or settled ("threw" with
\* the error's message, "status" with the response's status); a wait event
\* with its delay
CallEvent(k, n, m, u) == [e |-> "call", k |-> k, n |-> n, m |-> m, u |-> u]
WaitEvent(ms) == [e |-> "wait", k |-> "timer", n |-> ms, m |-> <<>>, u |-> <<>>]

IdleInput ==
    MakeInput(Undefined, Undefined,
              [gender |-> "OTHER", yearPillar |-> Undefined,
               startAge |-> Undefined, modelName |-> Undefined])

\* the state of the invocations before any of them has run a step
Idle ==
    /\ attempt = [i \in Invocations |-> 0]
    /\ response = [i \in Invocations |-> NoResponse]
    /\ inflight = [i \in Invocations |-> 0]
    /\ timer = [i \in Invocations |-> 0]
    /\ log = [i \in Invocations |-> <<>>]
    /\ request = [i \in Invocations |-> NoRequest]
    /\ error = [i \in Invocations |-> NoError]
    /\ result = [i \in Invocations |-> NoResult]

\* invocation 1 is called with any input; invocation 2 is not called
Init ==
    /\ \E k \in ApiKeys, u \in ApiBaseUrls, sub \in LoopSubjects :
          input = [i \in Invocations |-> IF i = 1 THEN MakeInput(k, u, sub) ELSE IdleInput]
    /\ pc = [i \in Invocations |-> IF i = 1 THEN "start" ELSE "idle"]
    /\ Idle

\* the credential checks at the head of generateLifeAnalysis
ConfigError(in) ==
    IF IsBlank(in.apiKey) THEN Err("ConfigurationError", MsgApiKey)
    ELSE IF IsBlank(in.apiBaseUrl) THEN Err("ConfigurationError", MsgBaseUrl)
    ELSE NoError

\* entry: validation, then the loop's variables are set up
Enter(i) ==
    /\ pc[i] = "start"
    /\ IF ConfigError(input[i]) # NoError
       THEN /\ error' = [error EXCEPT ![i] = ConfigError(input[i])]
            /\ pc' = [pc EXCEPT ![i] = "done"]
            /\ UNCHANGED request
       ELSE /\ request' = [request EXCEPT ![i] = BuildRequest(input[i])]
            /\ pc' = [pc EXCEPT ![i] = "loop"]
            /\ UNCHANGED error
    /\ attempt' = [attempt EXCEPT ![i] = 0]
    /\ UNCHANGED <<input, response, inflight, timer, log, result>>

\* the loop condition: another fetch is issued, or the loop is left
LoopHead(i) ==
    /\ pc[i] = "loop"
    /\ IF attempt[i] < retries
       THEN /\ pc' = [pc EXCEPT ![i] = "fetching"]
            /\ inflight' = [inflight EXCEPT ![i] = @ + 1]
            /\ log' = [log EXCEPT ![i] = Append(@, CallEvent("pending", 0, <<>>, request[i].url))]
       ELSE /\ pc' = [pc EXCEPT ![i] = "normalizing"]
            /\ UNCHANGED <<inflight, log>>
    /\ UNCHANGED <<input, attempt, response, timer, request, error, result>>

\* the loop body with one attempt counter for all invocations
FetchSettleFrom_SharedAttempt(i, outcomes) ==
    /\ pc[i] = "fetching"
    /\ \E o \in outcomes :
         LET step == OnSettle(o, attempt[i])
         IN  /\ inflight' = [inflight EXCEPT ![i] = @ - 1]
             /\ response' = [response EXCEPT ![i] = IF o.threw THEN @ ELSE o.resp]
             /\ attempt' = [j \in Invocations |-> step.attempt]
             /\ error' = [error EXCEPT ![i] = step.error]
             /\ timer' = [timer EXCEPT ![i] = step.waitMs]
             /\ log' = [log EXCEPT ![i] =
                   SubSeq(@, 1, Len(@) - 1)
                      \o <<IF o.threw
                           THEN CallEvent("threw", 0, o.msg, @[Len(@)].u)
                           ELSE CallEvent("status", o.resp.status, <<>>, @[Len(@)].u)>>
                      \o (IF step.next = "wait" THEN <<WaitEvent(step.waitMs)>> ELSE <<>>)]
             /\ pc' = [pc EXCEPT ![i] =
                   CASE step.next = "wait" -> "waiting"
                     [] step.next = "break" -> "normalizing"
                     [] OTHER -> "done"]
    /\ UNCHANGED <<input, request, result>>

\* the pending fetch settles to one of the given outcomes and the rest of
\* the loop body runs, up to the next suspension (a backoff timer), the
\* break or the throw
FetchSettleFrom(i, outcomes) ==
    /\ pc[i] = "fetching"
    /\ \E o \in outcomes :
         LET step == OnSettle(o, attempt[i])
         IN  /\ inflight' = [inflight EXCEPT ![i] = @ - 1]
             /\ response' = [response EXCEPT ![i] = IF o.threw THEN @ ELSE o.resp]
             /\ attempt' = [attempt EXCEPT ![i] = step.attempt]
             /\ error' = [error EXCEPT ![i] = step.error]
             /\ timer' = [timer EXCEPT ![i] = step.waitMs]
             /\ log' = [log EXCEPT ![i] =
                   SubSeq(@, 1, Len(@) - 1)
                      \o <<IF o.threw
                           THEN CallEvent("threw", 0, o.msg, @[Len(@)].u)
                           ELSE CallEvent("status", o.resp.status, <<>>, @[Len(@)].u)>>
                      \o (IF step.next = "wait" THEN <<WaitEvent(step.waitMs)>> ELSE <<>>)]
             /\ pc' = [pc EXCEPT ![i] =
                   CASE step.next = "wait" -> "waiting"
                     [] step.next = "break" -> "normalizing"
                     [] OTHER -> "done"]
    /\ UNCHANGED <<input, request, result>>

\* the pending fetch settles in any way the endpoint and the network allow
FetchSettle(i) == FetchSettleFrom(i, FetchOutcomes)

\* the backoff timer fires and the loop goes round
WaitDone(i) ==
    /\ pc[i] = "waiting"
    /\ timer' = [timer EXCEPT ![i] = 0]
    /\ pc' = [pc EXCEPT ![i] = "loop"]
    /\ UNCHANGED <<input, attempt, response, inflight, log, request, error, result>>

\* the code after the loop going round again when the reply is unusable
Normalize_RetryOnFailure(i) ==
    /\ pc[i] = "normalizing"
    /\ IF Normalization(response[i]).error # NoError /\ attempt[i] + 1 < retries
       THEN /\ attempt' = [attempt EXCEPT ![i] = @ + 1]
            /\ pc' = [pc EXCEPT ![i] = "loop"]
            /\ UNCHANGED <<error, result>>
       ELSE /\ error' = [error EXCEPT ![i] = Normalization(response[i]).error]
            /\ result' = [result EXCEPT ![i] = Normalization(response[i]).result]
            /\ pc' = [pc EXCEPT ![i] = "done"]
            /\ UNCHANGED attempt
    /\ UNCHANGED <<input, response, inflight, timer, log, request>>

\* the code after the loop: the response is read, cleaned, parsed and mapped
Normalize(i) ==
    /\ pc[i] = "normalizing"
    /\ error' = [error EXCEPT ![i] = Normalization(response[i]).error]
    /\ result' = [result EXCEPT ![i] = Normalization(response[i]).result]
    /\ pc' = [pc EXCEPT ![i] = "done"]
    /\ UNCHANGED <<input, attempt, response, inflight, timer, log, request>>

Next ==
    \E i \in Invocations :
        \/ Enter(i)
        \/ LoopHead(i)
        \/ FetchSettle(i)
        \/ WaitDone(i)
        \/ Normalize(i)

Spec == Init /\ [][Next]_vars

\* every pending fetch settles, every timer fires, every step is taken
FairSpec == Spec /\ WF_vars(Next)

\* the preparation of the request alone, for every subject
PromptInit ==
    /\ \E k \in ApiKeys, u \in ApiBaseUrls, sub \in Subjects :
          input = [i \in Invocations |-> IF i = 1 THEN MakeInput(k, u, sub) ELSE IdleInput]
    /\ pc = [i \in Invocations |-> IF i = 1 THEN "start" ELSE "idle"]
    /\ Idle

PromptNext == \E i \in Invocations : Enter(i)

PromptSpec == PromptInit /\ [][PromptNext]_vars

\* two invocations side by side, their steps interleaved in any order; the
\* endpoint answers each call with one of a few representative outcomes
ConcKeys == {Str(<<>>), Str(<<"k">>)}
ConcBaseUrls == {Str(<<"h">>), Str(<<"h", "/", "/">>)}
ConcContents == {Obj(Points), <<"p">>}
ConcOutcomes ==
    {o \in FetchOutcomes :
        \/ o.threw /\ o.msg = <<"Failed to fetch">>
        \/ ~o.threw /\ o.resp.status \in {403, 503} /\ o.resp.text = <<"busy">>
        \/ ~o.threw /\ o.resp.status = 200 /\ o.resp.envelope = "content"
                    /\ o.resp.content \in ConcContents}

ConcInit ==
    /\ \E k1 \in ConcKeys, k2 \in ConcKeys, u1 \in ConcBaseUrls, u2 \in ConcBaseUrls,
          sub \in LoopSubjects :
          input = [i \in Invocations |->
                      IF i = 1 THEN MakeInput(k1, u1, sub) ELSE MakeInput(k2, u2, sub)]
    /\ pc = [i \in Invocations |-> "start"]
    /\ Idle

ConcNext ==
    \E i \in Invocations :
        \/ Enter(i)
        \/ LoopHead(i)
        \/ FetchSettleFrom(i, ConcOutcomes)
        \/ WaitDone(i)
        \/ Normalize(i)

ConcSpec == ConcInit /\ [][ConcNext]_vars

TypeOK ==
    /\ \A i \in Invocations :
          /\ pc[i] \in {"idle", "start", "loop", "fetching", "waiting", "normalizing", "done"}
          /\ attempt[i] \in 0..(retries + 1)
          /\ inflight[i] \in 0..1
\* ------------------------------------------------------ reading the log
\* positions of the network calls in the log of invocation i
CallsAt(i) == {k \in 1..Len(log[i]) : log[i][k].e = "call"}
NumCalls(i) == Cardinality(CallsAt(i))
\* the 1-based number of the call logged at position k
CallNumber(i, k) == Cardinality({j \in CallsAt(i) : j <= k})
Is503(ev) == ev.e = "call" /\ ev.k = "status" /\ ev.n = 503
IsThrew(ev) == ev.e = "call" /\ ev.k = "threw"
IsSuccess(ev) == ev.e = "call" /\ ev.k = "status" /\ ev.n \in 200..299
IsOtherStatus(ev) == ev.e = "call" /\ ev.k = "status" /\ ev.n # 503 /\ ev.n \notin 200..299
IsWait(ev) == ev.e = "wait"
Failed(i) == pc[i] = "done" /\ error[i] # NoError /\ result[i] = NoResult

\* C1: an invocation makes at most 3 network calls, whatever mix of 503
\* responses, other failures, transport errors and successes it meets.
C1_AtMostThreeCalls == \A i \in Invocations : NumCalls(i) <= 3

\* three calls were made, one answered 503 and one rejected by the transport
C1_Witness ==
    \E i \in Invocations :
        /\ NumCalls(i) = 3
        /\ \E k \in CallsAt(i) : Is503(log[i][k])
        /\ \E k \in CallsAt(i) : IsThrew(log[i][k])

\* C2: a response that is neither 503 nor a success is fatal at once: the
\* invocation has failed with an HttpError carrying status and body, and
\* nothing (no wait, no call) follows that response.
C2_OtherStatusIsFatal ==
    \A i \in Invocations : \A k \in 1..Len(log[i]) :
        IsOtherStatus(log[i][k]) =>
            /\ k = Len(log[i])
            /\ Failed(i)
            /\ error[i].kind = "HttpError"
            /\ Includes(error[i].msg, Digits(log[i][k].n))
            /\ Includes(error[i].msg, response[i].text)

\* a string that is missing, empty or made of whitespace only
MissingOrBlank(v) == ~v.def \/ \A k \in 1..Len(v.s) : v.s[k] \in {" ", "\t", "\n"}

\* C3: with a missing, empty or whitespace-only API key or base URL the
\* invocation fails with a ConfigurationError and makes no network call.
C3_BlankCredentialsFail ==
    \A i \in Invocations :
        (MissingOrBlank(input[i].apiKey) \/ MissingOrBlank(input[i].apiBaseUrl)) =>
            /\ log[i] = <<>>
            /\ pc[i] \in {"idle", "start", "done"}
            /\ pc[i] = "done" => Failed(i) /\ error[i].kind = "ConfigurationError"

\* a whitespace-only base URL next to a usable key has been rejected
C3_Witness ==
    \E i \in Invocations :
        /\ pc[i] = "done"
        /\ error[i].kind = "ConfigurationError"
        /\ ~MissingOrBlank(input[i].apiKey)
        /\ input[i].apiBaseUrl.def /\ input[i].apiBaseUrl.s # <<>>
\* the settled and pending calls of invocation i, in order
CallSeq(i) == SelectSeq(log[i], LAMBDA ev : ev.e = "call")
\* the first n calls were each answered 503
First503s(calls, n) == \A j \in 1..n : Is503(calls[j])

\* what the reply content of response r parses to
Parsed(r) == JSONParse(CleanContent(r.content))
\* a success response whose body is readable and holds an array chartPoints
ValidBody(r) ==
    /\ r.envelope = "content"
    /\ r.content # <<>>
    /\ Parsed(r).ok
    /\ Get(Parsed(r), "chartPoints").t = "arr"

\* C4: after k < 3 consecutive 503 responses the invocation is still
\* running, and when the next response is a success with a valid body the
\* invocation succeeds with the parsed content of that last response.
C4_SucceedsAfter503s ==
    \A i \in Invocations :
        LET calls == CallSeq(i)
            n == Len(calls)
        IN  /\ (n \in 1..2 /\ First503s(calls, n)) =>
                   pc[i] \in {"waiting", "loop"} /\ error[i] = NoError
            /\ ( /\ pc[i] = "done"
                 /\ n \in 1..3
                 /\ First503s(calls, n - 1)
                 /\ IsSuccess(calls[n])
                 /\ ValidBody(response[i]) ) =>
                   /\ error[i] = NoError
                   /\ Ok(response[i])
                   /\ result[i] = MakeResult(Parsed(response[i]))
                   /\ result[i]["chartData"].t = "arr"

\* the responses were 503, 503 and a success, and a result was returned
C4_Witness ==
    \E i \in Invocations :
        /\ pc[i] = "done"
        /\ Len(CallSeq(i)) = 3
        /\ First503s(CallSeq(i), 2)
        /\ IsSuccess(CallSeq(i)[3])
        /\ result[i] # NoResult

\* C5: three consecutive 503 responses end the invocation with a
\* ServiceUnavailable error after exactly 3 calls; the message holds "503",
\* the attempt count 3 and the body of the last 503, and no wait follows.
C5_ThreeTimes503Fails ==
    \A i \in Invocations :
        (Len(CallSeq(i)) >= 3 /\ First503s(CallSeq(i), 3)) =>
            /\ NumCalls(i) = 3
            /\ Failed(i)
            /\ error[i].kind = "ServiceUnavailable"
            /\ Includes(error[i].msg, <<"5", "0", "3">>)
            /\ Includes(error[i].msg, <<" Service Unavailable) - retried ", "3", " times: ">>)
            /\ Includes(error[i].msg, response[i].text)
            /\ response[i].status = 503
            /\ ~IsWait(log[i][Len(log[i])])
            /\ Cardinality({k \in 1..Len(log[i]) : IsWait(log[i][k])}) = 2

\* three 503 responses were received, the last with a body of its own
C5_Witness ==
    \E i \in Invocations :
        /\ Len(CallSeq(i)) = 3
        /\ First503s(CallSeq(i), 3)
        /\ response[i].text = <<"busy">>

Complete(r) == \A f \in ResultFields : r[f].t # "undefined"
LastEvent(i) == log[i][Len(log[i])]

\* C8: when fetches settle and timers fire, every invocation ends, and it
\* ends with either a complete result or an error, never both, never a
\* partial result; a result is returned only when the last call answered
\* with a success and content, parse and chartPoints check all passed.
C8_OneTerminalOutcome ==
    /\ \A i \in Invocations : <>(pc[i] \in {"idle", "done"})
    /\ [](\A i \in Invocations :
            /\ pc[i] # "done" => error[i] = NoError /\ result[i] = NoResult
            /\ pc[i] = "done" => (error[i] = NoError) # (result[i] = NoResult)
            /\ result[i] # NoResult =>
                  /\ pc[i] = "done"
                  /\ Complete(result[i])
                  /\ log[i] # <<>>
                  /\ IsSuccess(LastEvent(i))
                  /\ response[i].status = LastEvent(i).n
                  /\ response[i].envelope = "content"
                  /\ response[i].content # <<>>
                  /\ Parsed(response[i]).ok
                  /\ Get(Parsed(response[i]), "chartPoints").t = "arr")

\* an invocation has returned a result after a retry
C8_Witness ==
    \E i \in Invocations :
        pc[i] = "done" /\ result[i] # NoResult /\ NumCalls(i) > 1

\* normalization of invocation i got as far as a parsed payload
ParsedPayload(i) ==
    /\ pc[i] = "done"
    /\ log[i] # <<>>
    /\ IsSuccess(LastEvent(i))
    /\ response[i].envelope = "content"
    /\ response[i].content # <<>>
    /\ Parsed(response[i]).ok

\* C9: a parsed payload without chartPoints, or with a chartPoints that is
\* no array, fails with MissingFieldError and no result; with an array
\* (also an empty one) the result's chartData is that array.
C9_ChartPointsCheck ==
    \A i \in Invocations :
        ParsedPayload(i) =>
            LET cp == Get(Parsed(response[i]), "chartPoints")
            IN  IF cp.t = "arr"
                THEN error[i] = NoError /\ result[i]["chartData"] = cp
                ELSE Failed(i) /\ error[i].kind = "MissingFieldError"

\* a payload with an empty chartPoints array has been returned as a result
C9_Witness ==
    \E i \in Invocations :
        /\ ParsedPayload(i)
        /\ response[i].content = <<"{", "chartPoints", ":", "[]", "}">>
        /\ result[i]["chartData"] = Arr(<<>>)

\* C10: each score of the result is the payload's value when the payload
\* has a number there, whatever the number, and 5 when the field is absent.
C10_ScoresPassThrough ==
    \A i \in Invocations :
        (ParsedPayload(i) /\ error[i] = NoError) =>
            \A f \in ScoreFields :
                LET v == Get(Parsed(response[i]), f)
                IN  /\ v.t = "num" => result[i][f] = v
                    /\ v.t = "undefined" => result[i][f] = Num(5)
\* the content is object obj between prose pre/post and fences open/close
WrapsAs(content, pre, open, obj, close, post) ==
    content = pre \o open \o obj \o close \o post
HasChar(s, c) == \E k \in 1..Len(s) : s[k] = c

\* C11 as claimed: whatever prose and fences surround a valid object J,
\* cleaning recovers exactly J and the result is that of the bare J.
C11_AnyWrappingRecovered ==
    \A i \in Invocations :
        \A pre \in ProseBefore, open \in FenceOpen, obj \in BareObjects,
           close \in FenceClose, post \in ProseAfter :
            (pc[i] = "done" /\ WrapsAs(response[i].content, pre, open, obj, close, post)) =>
                /\ CleanContent(response[i].content) = obj
                /\ error[i] = NoError
                /\ result[i] = MakeResult(JSONParse(obj))

\* C11 amended: when the prose before J has no "{" and the prose after J
\* has no "}", cleaning recovers exactly J and the result is that of the
\* bare J, with or without fences in any letter case.
C11_WrappingRecovered ==
    \A i \in Invocations :
        \A pre \in ProseBefore, open \in FenceOpen, obj \in BareObjects,
           close \in FenceClose, post \in ProseAfter :
            ( /\ pc[i] = "done"
              /\ WrapsAs(response[i].content, pre, open, obj, close, post)
              /\ ~HasChar(pre, "{")
              /\ ~HasChar(post, "}") ) =>
                /\ CleanContent(response[i].content) = obj
                /\ error[i] = NoError
                /\ result[i] = MakeResult(JSONParse(obj))

\* an object inside an upper-case fence, with prose on both sides, has been
\* returned as a result
C11_Witness ==
    \E i \in Invocations :
        /\ pc[i] = "done"
        /\ response[i].content =
              <<"}", "p", "\n">> \o Fence \o <<"J", "s", "O", "N", "\n">>
                 \o Obj(Pair("chartPoints", "[]")) \o <<"\n">> \o Fence \o <<"\n", "{", "p">>
        /\ result[i]["chartData"] = Arr(<<>>)

\* ------------------------------------------------- the prepared request
\* invocation i passed validation and prepared its request
Prepared(i) == request[i].built

\* C12: the direction put in the prompt is a total function of gender and
\* year-stem polarity: MALE with YANG and non-MALE with YIN give forward,
\* MALE with YIN and non-MALE with YANG give backward; every input, also one
\* with an unrecognized or empty year pillar, gets exactly one direction.
C12_DirectionTotal ==
    \A i \in Invocations :
        Prepared(i) =>
            LET male == input[i].gender = "MALE"
                yang == request[i].yearStemPolarity = "YANG"
                yin == request[i].yearStemPolarity = "YIN"
                forward == request[i].daYunDirectionStr = "shun xing (Forward)"
                backward == request[i].daYunDirectionStr = "ni xing (Backward)"
            IN  /\ yang # yin
                /\ forward # backward
                /\ (male /\ yang) => forward
                /\ (male /\ yin) => backward
                /\ (~male /\ yin) => forward
                /\ (~male /\ yang) => backward
                /\ request[i].isForward <=> forward
                /\ request[i].directionExample = DirectionExample(forward)

\* a subject that is neither MALE nor FEMALE, with an empty year pillar,
\* was given the backward direction
C12_Witness ==
    \E i \in Invocations :
        /\ Prepared(i)
        /\ input[i].gender = "OTHER"
        /\ input[i].yearPillar = Str(<<>>)
        /\ request[i].daYunDirectionStr = "ni xing (Backward)"

\* the first character of a text that is no white space, "" when none
FirstVisible(s) ==
    IF \A k \in 1..Len(s) : s[k] \in Whitespace THEN ""
    ELSE s[CHOOSE k \in 1..Len(s) :
                s[k] \notin Whitespace /\ \A j \in 1..(k - 1) : s[j] \in Whitespace]

\* C13 as claimed: the polarity is YIN exactly when the first character of
\* the pillar string is a yin stem, and YANG in every other case.
C13_FirstCharDecides ==
    \A i \in Invocations :
        Prepared(i) =>
            /\ request[i].yearStemPolarity \in {"YANG", "YIN"}
            /\ request[i].yearStemPolarity = "YIN"
                  <=> /\ StrTruthy(input[i].yearPillar)
                      /\ input[i].yearPillar.s[1] \in YinStems

\* C13 amended: the polarity is YIN exactly when the first character of the
\* pillar string after its leading white space is a yin stem, and YANG in
\* every other case (yang stem, empty or blank string, missing pillar, any
\* other character); the lookup never fails.
C13_FirstTrimmedCharDecides ==
    \A i \in Invocations :
        Prepared(i) =>
            /\ request[i].yearStemPolarity \in {"YANG", "YIN"}
            /\ request[i].yearStemPolarity = "YIN"
                  <=> /\ StrTruthy(input[i].yearPillar)
                      /\ FirstVisible(input[i].yearPillar.s) \in YinStems
            /\ pc[i] = "loop" => error[i] = NoError

\* a pillar written with a space before a yin stem was classified YIN
C13_Witness ==
    \E i \in Invocations :
        /\ Prepared(i)
        /\ input[i].yearPillar = Str(<<" ", "yi", "chou">>)
        /\ request[i].yearStemPolarity = "YIN"

\* C14: the starting age of the prompt's age ranges is the integer parsed
\* from the starting-age string whenever it parses as an integer, and is 1
\* only when the string does not parse.
C14_ParsedAgeUsed ==
    \A i \in Invocations :
        Prepared(i) =>
            LET parsed == parseInt(input[i].startAge)
            IN  /\ ~parsed.nan => /\ request[i].startAgeInt = parsed.n
                                  /\ request[i].ages = AgeRanges(parsed.n)
                /\ parsed.nan => request[i].startAgeInt = 1

\* the part of a base URL left when the slashes at its end are taken off
IsCleanPrefix(pre, url) ==
    /\ Len(pre) <= Len(url)
    /\ SubSeq(url, 1, Len(pre)) = pre
    /\ \A k \in (Len(pre) + 1)..Len(url) : url[k] = "/"
    /\ pre = <<>> \/ pre[Len(pre)] # "/"

\* C15: with a base URL that passes validation, every network call targets
\* the base URL without all of its trailing slashes, followed by
\* "/chat/completions"; what precedes the path never ends in a slash.
C15_CallsTargetCleanUrl ==
    \A i \in Invocations :
        \A k \in CallsAt(i) :
            /\ ~IsBlank(input[i].apiBaseUrl)
            /\ \E n \in 0..Len(input[i].apiBaseUrl.s) :
                  LET pre == SubSeq(input[i].apiBaseUrl.s, 1, n)
                  IN  /\ IsCleanPrefix(pre, input[i].apiBaseUrl.s)
                      /\ log[i][k].u = pre \o <<"/", "chat", "/", "completions">>

\* three calls were made with a base URL ending in two slashes, each to the
\* URL with both slashes removed
C15_Witness ==
    \E i \in Invocations :
        /\ input[i].apiBaseUrl = Str(<<"h", "/", "/">>)
        /\ NumCalls(i) = 3
        /\ \A k \in CallsAt(i) : log[i][k].u = <<"h", "/", "chat", "/", "completions">>

\* ------------------------------------------------ concurrent invocations
\* everything invocation i owns
Local(i) ==
    <<input[i], pc[i], attempt[i], response[i], inflight[i], timer[i], log[i],
      request[i], error[i], result[i]>>

\* the settled and pending network calls of i, in order, without the waits
CallsOf(i) == SelectSeq(log[i], LAMBDA ev : ev.e = "call")
WaitsOf(i) == SelectSeq(log[i], LAMBDA ev : ev.e = "wait")

\* C16: two invocations whose attempts and waits interleave in any order do
\* not affect each other: a step of one leaves everything the other owns
\* (attempt counter, response slot, log, outcome) as it was; two finished
\* invocations with equal input that met the same sequence of responses made
\* the same calls and waits and ended the same way; and an invocation never
\* has more than one network call in flight.
C16_InvocationsIndependent ==
    /\ [](\A i \in Invocations :
              /\ inflight[i] <= 1
              /\ inflight[i] = 1 <=> pc[i] = "fetching")
    /\ [](\A i, j \in Invocations :
              (/\ pc[i] = "done" /\ pc[j] = "done"
               /\ input[i] = input[j]
               /\ CallsOf(i) = CallsOf(j)
               /\ response[i] = response[j])
              => /\ WaitsOf(i) = WaitsOf(j)
                 /\ log[i] = log[j]
                 /\ error[i] = error[j]
                 /\ result[i] = result[j])
    /\ [][\E i \in Invocations : \A j \in Invocations \ {i} : Local(j)' = Local(j)]_vars

\* both invocations are under way at once, one waiting after its second
\* failed attempt, the other with its second call in flight
C16_Witness ==
    /\ pc[1] = "waiting" /\ attempt[1] = 2
    /\ pc[2] = "fetching" /\ attempt[2] = 1 /\ inflight[2] = 1

\* ------------------------------------------------- errors that mention 503
\* the error the inner catch block receives when the call logged as ev has
\* settled with response r and the counter stood at n before; NoError when
\* nothing is thrown inside the try block
CaughtError(ev, r, n) ==
    IF IsThrew(ev) THEN Err("NetworkError", ev.m)
    ELSE IF Is503(ev)
    THEN IF n + 1 >= retries THEN Err("ServiceUnavailable", Msg503(r.text)) ELSE NoError
    ELSE IF IsOtherStatus(ev) THEN Err("HttpError", MsgHttp(ev.n, r.text))
    ELSE NoError

\* invocation i takes the step in which its pending fetch settles
Settles(i) == pc[i] = "fetching" /\ pc'[i] # "fetching"

C18_LoopExitsWithResponse ==
    \A i \in Invocations :
        /\ pc[i] = "normalizing" =>
              /\ response[i] # NoResponse
              /\ Ok(response[i])
              /\ response[i].status # 503
              /\ log[i] # <<>>
              /\ IsSuccess(LastEvent(i))
              /\ LastEvent(i).n = response[i].status
              /\ attempt[i] < retries
        /\ error[i].kind # "UnknownError"
        /\ pc[i] = "loop" => attempt[i] < retries
        /\ attempt[i] >= retries =>
              /\ pc[i] = "done"
              /\ error[i] # NoError
              /\ error[i].kind \in {"ServiceUnavailable", "NetworkError", "HttpError"}

\* normalization begins with the success response of the third call, after
\* a transport error and a 503 response
C18_Witness ==
    \E i \in Invocations :
        /\ pc[i] = "normalizing"
        /\ NumCalls(i) = 3
        /\ IsThrew(log[i][1])
        /\ \E k \in CallsAt(i) : Is503(log[i][k])
        /\ response[i].status = 200

\* ----------------------------------------------------- after a success
NormalizationErrors ==
    {"EnvelopeError", "EmptyResponseError", "MalformedResponseError", "MissingFieldError"}

\* C19: once a success response has been received the invocation makes no
\* further call and no wait: the success is the last event of the log for
\* good, no timer runs, and the only step left is the normalization, which
\* ends the invocation; a normalization failure (unreadable envelope, empty
\* content, malformed JSON, missing chartPoints) is the error the invocation
\* ends with, and the attempts that were left stay unused.
C19_NothingAfterSuccess ==
    /\ [](\A i \in Invocations :
              /\ \A k \in 1..Len(log[i]) :
                    IsSuccess(log[i][k]) =>
                        /\ k = Len(log[i])
                        /\ pc[i] \in {"normalizing", "done"}
                        /\ timer[i] = 0
                        /\ inflight[i] = 0
              /\ (pc[i] = "done" /\ error[i].kind \in NormalizationErrors) =>
                    /\ IsSuccess(LastEvent(i))
                    /\ result[i] = NoResult
                    /\ attempt[i] = NumCalls(i) - 1
                    /\ attempt[i] < retries)
    /\ [][\A i \in Invocations :
              pc[i] = "normalizing" =>
                  \/ Local(i)' = Local(i)
                  \/ /\ pc'[i] = "done"
                     /\ log'[i] = log[i]
                     /\ attempt'[i] = attempt[i]
                     /\ timer'[i] = 0
                     /\ error'[i] = Normalization(response[i]).error]_vars

\* the first call succeeded with content that is no JSON: the invocation
\* ended with the malformed-content error after that one call
C19_Witness ==
    \E i \in Invocations :
        /\ pc[i] = "done"
        /\ error[i].kind = "MalformedResponseError"
        /\ NumCalls(i) = 1
        /\ attempt[i] = 0

\* ------------------------------------------------------ calls and waits
\* the sum of the delays of the waits in a log
TotalWait(l) ==
    LET sum[k \in 0..Len(l)] ==
            IF k = 0 THEN 0 ELSE sum[k - 1] + (IF IsWait(l[k]) THEN l[k].n ELSE 0)
    IN  sum[Len(l)]

\* C20: in every invocation calls and waits strictly alternate: the log
\* starts with a call, each call but the last is followed by exactly one
\* wait and each wait by a call; a wait is the last event only while its
\* timer runs or the loop is about to call again, never once the invocation
\* normalizes or has ended; so at most 2 waits occur and they add up to at
\* most 6000 ms.
C20_CallsAndWaitsAlternate ==
    \A i \in Invocations :
        /\ \A k \in 1..Len(log[i]) : IsWait(log[i][k]) <=> k % 2 = 0
        /\ \A k \in 1..Len(log[i]) : log[i][k].e = "call" <=> k % 2 = 1
        /\ (log[i] # <<>> /\ IsWait(LastEvent(i))) =>
              /\ pc[i] \in {"waiting", "loop"}
              /\ error[i] = NoError
        /\ pc[i] = "waiting" <=> timer[i] > 0
        /\ pc[i] = "waiting" => IsWait(LastEvent(i)) /\ LastEvent(i).n = timer[i]
        /\ pc[i] = "loop" => log[i] = <<>> \/ IsWait(LastEvent(i))
        /\ Len(WaitsOf(i)) <= 2
        /\ TotalWait(log[i]) <= 6000

\* three calls separated by waits of 2000 ms and 4000 ms: 6000 ms in all
C20_Witness ==
    \E i \in Invocations :
        /\ pc[i] = "done"
        /\ Len(log[i]) = 5
        /\ Len(WaitsOf(i)) = 2
        /\ TotalWait(log[i]) = 6000
        /\ ~IsWait(LastEvent(i))
====
